---- MODULE Spec2Model ----
(***************************************************************************)
(* Model of src/telegram_url_tester_enhanced.py: the URL-testing campaign  *)
(* (test / run_test / pause / resume / stop / start), its checkpoint file  *)
(* (save_test_state / load_test_state), the probe (check_url) and the      *)
(* scheduled jobs (schedule_test / run_scheduled_test / image checks).     *)
(*                                                                         *)
(* Granularity.  asyncio runs a coroutine without interruption between two *)
(* awaits, so run_test is cut at its awaits: each value of a task's pc is  *)
(* an await the loop is suspended in.  A command handler is one action.    *)
(* save_test_state builds the snapshot before its first await, so the file *)
(* receives the snapshot taken at the call.                                *)
(***************************************************************************)
EXTENDS Integers, Sequences, FiniteSets, TLC

\* ------------------------------------------------------------------ bounds
\* Number of run_test tasks that may be alive at once (asyncio itself has no limit).
MaxTasks == 2
\* batch_size, 300 in the source (line 45, 230), scaled down.
BatchSize == 3
\* the checkpoint interval, 200 in the source (line 261), scaled down.
SaveEvery == 2
\* The largest number of attempts a campaign is configured with.
MaxAttempts == 7
\* The counters kept of probes and final summaries stop counting here.
MaxCount == 2
\* Cap on the nesting of run_test inside run_test (line 287).
MaxDepth == 2
\* Cap on the length of valid_urls (tasks created by /start while a loop is
\* alive can append to it without end).
MaxValid == 4
\* Number of run_scheduled_test coroutines that may be running at once.
MaxRuns == 1

\* ------------------------------------------------------- program constants
\* check_url(url, retries=3, ...)
Retries == 3
\* user_data.get('initial_number', 4571609355900): the default first id.  Only
\* "+ i" and equality are applied to ids, so the default is scaled to 100.
DefaultInitialNumber == 100
\* The progress message is sent every 300 attempts (line 268), the same literal
\* as batch_size.
ProgressEvery == BatchSize

Sessions == {"A", "B"}

\* 'url' / 'attempts' not yet a key of user_data.
NoUrl == "<unset>"
NoAttempts == -1

\* ------------------------------------------------------------- the probe
\* What one GET of check_url can meet: an exception of the transport (connect,
\* timeout, DNS, invalid URL, body read), a status other than 200, or a 200
\* whose content type is image/jpeg, another image type, or no image and whose
\* body holds / does not hold one of the three error phrases.
GetOutcomes == {"exc", "non200", "jpeg", "png", "marker", "clean"}

TransportSeqs == [1..Retries -> GetOutcomes]

\* Lines 79-98: the value returned for a response.
Verdict(o, check_image) ==
    IF o = "non200" THEN FALSE
    ELSE IF check_image THEN o = "jpeg"
    ELSE IF o \in {"jpeg", "png"} THEN TRUE
    ELSE o # "marker"

\* Without the except clause of line 99 the exception leaves check_url.
NoExcept(o) == FALSE

\* Line 99: "except Exception" catches what the GET raised.
Caught(o) == o = "exc"

RECURSIVE CheckFrom(_, _, _, _)
\* Lines 76-105: the for loop of check_url from attempt number `attempt` on.
\* The result: valid (the value returned), gets (GETs issued), raised (an exception
\* left check_url instead of a value).
CheckFrom(outs, attempt, retries, check_image) ==
    IF attempt >= retries
    THEN [valid |-> FALSE, gets |-> attempt, raised |-> FALSE]
    ELSE LET o == outs[attempt + 1]
         IN  IF Caught(o)
             THEN CheckFrom(outs, attempt + 1, retries, check_image)
             ELSE IF o = "exc"
             THEN [valid |-> FALSE, gets |-> attempt + 1, raised |-> TRUE]
             ELSE [valid |-> Verdict(o, check_image), gets |-> attempt + 1,
                   raised |-> FALSE]

\* check_url(url, retries=3, timeout=5, check_image=False)
CheckUrl(outs, check_image) == CheckFrom(outs, 0, Retries, check_image)

\* url_template.format(current_number): '' stays '', 'T{}' becomes 'T<n>'.
Format(tpl, n) == IF tpl = "" THEN [tpl |-> "", n |-> 0] ELSE [tpl |-> tpl, n |-> n]

\* str.format with a template that names a second argument raises IndexError.
BadTemplate == "{}{}"
FormatRaises(tpl) == tpl = BadTemplate

Const(o) == [j \in 1..Retries |-> o]

\* The network: for each url, the GET outcomes check_url can meet there.  In the
\* worlds "only107" and "mixed" a url always behaves the same way, so two runs
\* over the same ids meet identical probe outcomes; in "any" everything can
\* happen.  The empty url is refused by the client on every attempt.
Transport(world, url) ==
    IF url.tpl = "" THEN {Const("exc")}
    ELSE IF world = "only107"
    THEN {IF url.n = 107 THEN Const("jpeg") ELSE Const("non200")}
    ELSE IF world = "mixed"
    THEN {CASE url.n % 4 = 0 -> Const("exc")
            [] url.n % 4 = 1 -> [j \in 1..Retries |-> IF j = 1 THEN "exc" ELSE "clean"]
            [] url.n % 4 = 2 -> Const("marker")
            [] OTHER -> Const("png")}
    ELSE TransportSeqs

\* ------------------------------------------------------------------ state
VARIABLES
    user_data,  \* context.user_data of each session (the campaign fields)
    file,       \* test_state.json: <<>> when missing, else <<snapshot>>
    tasks,      \* the run_test tasks: slot -> frame locals and await position
    lastMsg,    \* per session: the last message of the campaign (loop or /stop)
    finals,     \* per session: final summaries sent since the last /test
    stopSummary,\* per session: <<urls of the /stop summary>> since the last /test
    probed,     \* per session and attempt index: probes started since the last
                \* /test (n) and the id last probed for it
    reply,      \* per session: the answer of the last command handler
    saved,      \* per session: what that session's handlers and loop last saved
    lastProbe,  \* per session: outcomes and result of the last check_url call
    net,        \* the world the probes run against
    watch,      \* which of the records lastMsg .. lastProbe the behaviour keeps
    sdata,      \* per session: the keys of context.user_data that the snapshot
                \* does not hold (scheduled_*, image_links, image_check_chat_id)
    jobs,       \* the job store of the scheduler: job id -> <<>> or <<job>>
    runs        \* the run_scheduled_test coroutines: slot -> frame locals

schedVars == <<sdata, jobs, runs>>

vars == <<user_data, file, tasks, lastMsg, finals, stopSummary, probed, reply,
          saved, lastProbe, net, watch, schedVars>>

Slots == 1..MaxTasks

\* user_data before any command; the fields read with .get(key, default) hold
\* their default.
InitUD ==
    [url |-> NoUrl, attempts |-> NoAttempts,
     initial_number |-> DefaultInitialNumber,
     testing |-> FALSE, paused |-> FALSE, current_index |-> 0,
     valid_urls |-> <<>>, batch_size |-> BatchSize, batch_number |-> 0]

IdleTask ==
    [pc |-> "none", sess |-> "A", url_template |-> "", total_attempts |-> 0,
     initial_number |-> 0, batch_size |-> 0, batch_number |-> 0,
     start_index |-> 0, end_index |-> 0, i |-> 0, valid_urls |-> <<>>,
     outer |-> <<>>]

NoProbe == [done |-> FALSE, outs |-> Const("exc"), valid |-> FALSE, gets |-> 0,
            raised |-> FALSE]

NoMsg == [kind |-> "none", urls |-> <<>>]

NoProbes == [i \in 0..(MaxAttempts - 1) |-> [n |-> 0, id |-> 0]]

\* Lines 385 and 490: the two ids under which jobs are added.
JobIds == {"scheduled_test", "image_check"}

RunSlots == 1..MaxRuns

\* No /scheduletest, /setimagelinks or /scheduleimagecheck yet.
InitSData == [scheduled |-> <<>>, image_links |-> <<>>, image_check_chat_id |-> "none"]

\* The locals of run_scheduled_test (lines 395-399), with the message it
\* sent last and the number of check_url calls it has made.
IdleRun ==
    [pc |-> "none", sess |-> "A", url_template |-> "", attempts |-> 0,
     initial_number |-> 0, chat_id |-> "none", i |-> 0, valid_urls |-> <<>>,
     msg |-> "none", probes |-> 0]

\* The records a behaviour can keep; none of them is read by the program.
\*   "reply"  : reply                   "msg"   : lastMsg, finals, stopSummary
\*   "probes" : probed                  "probe" : lastProbe
\*   "saved"  : saved
Rec(name, new, old) == IF name \in watch THEN new ELSE old

InitIn(worlds, watched) ==
    /\ user_data = [s \in Sessions |-> InitUD]
    /\ file = <<>>
    /\ tasks = [k \in Slots |-> IdleTask]
    /\ lastMsg = [s \in Sessions |-> NoMsg]
    /\ finals = [s \in Sessions |-> 0]
    /\ stopSummary = [s \in Sessions |-> <<>>]
    /\ probed = [s \in Sessions |-> NoProbes]
    /\ reply = [s \in Sessions |-> "none"]
    /\ saved = [s \in Sessions |-> <<>>]
    /\ lastProbe = [s \in Sessions |-> NoProbe]
    /\ net \in worlds
    /\ watch = watched
    /\ sdata = [s \in Sessions |-> InitSData]
    /\ jobs = [j \in JobIds |-> <<>>]
    /\ runs = [r \in RunSlots |-> IdleRun]

Init == InitIn({"mixed"}, {})

\* ------------------------------------------------------- the checkpoint file
\* Lines 37-47: the state save_test_state writes.
Snapshot(ud) ==
    [testing |-> ud.testing, paused |-> ud.paused,
     url |-> IF ud.url = NoUrl THEN "" ELSE ud.url,
     attempts |-> IF ud.attempts = NoAttempts THEN 0 ELSE ud.attempts,
     initial_number |-> ud.initial_number,
     current_index |-> ud.current_index,
     valid_urls |-> ud.valid_urls,
     batch_size |-> ud.batch_size,
     batch_number |-> ud.batch_number]

\* Lines 48-50: STATE_FILE is one path, whoever saves.
SaveTestState(f, s, ud) == <<Snapshot(ud)>>

\* A file whose content json.loads refuses: emptied or torn by a write that
\* failed.
Unreadable == <<[unreadable |-> TRUE]>>

\* Lines 55-64: user_data.update(state); a missing file (line 61) and one that
\* cannot be read (line 63) are logged and change nothing.
LoadTestState(f, s, ud) ==
    IF f = <<>> \/ f = Unreadable THEN ud
    ELSE [ud EXCEPT !.testing = f[1].testing, !.paused = f[1].paused,
                    !.url = f[1].url, !.attempts = f[1].attempts,
                    !.initial_number = f[1].initial_number,
                    !.current_index = f[1].current_index,
                    !.valid_urls = f[1].valid_urls,
                    !.batch_size = f[1].batch_size,
                    !.batch_number = f[1].batch_number]

FreeSlots == {k \in Slots : tasks[k].pc = "none"}
LowestFree == CHOOSE k \in FreeSlots : \A j \in FreeSlots : k <= j

\* asyncio.create_task(run_test(update, context)): the task exists and has not
\* run yet.
NewTask(s) == [IdleTask EXCEPT !.pc = "created", !.sess = s]

Live(s) == {k \in Slots : tasks[k].pc # "none" /\ tasks[k].sess = s}

Say(s, what) == reply' = Rec("reply", [reply EXCEPT ![s] = what], reply)

\* A handler that saves: user_data and the file.
Store(s, ud) ==
    /\ user_data' = [user_data EXCEPT ![s] = ud]
    /\ file' = SaveTestState(file, s, ud)
    /\ saved' = Rec("saved", [saved EXCEPT ![s] = <<Snapshot(ud)>>], saved)

\* ------------------------------------------------------- command handlers
\* /test without the check of line 211.
NeverTesting(ud) == FALSE

\* Lines 211-213: /test while the testing flag is set is refused.
AlreadyTesting(ud) == ud.testing

\* Lines 215-219: the fields /test resets.
Started(ud) ==
    [ud EXCEPT !.testing = TRUE, !.paused = FALSE, !.valid_urls = <<>>,
               !.current_index = 0, !.batch_number = 0]

\* Lines 206-223: /test.
Test(s) ==
    LET ud == user_data[s]
    IN  IF ud.url = NoUrl \/ ud.attempts = NoAttempts
        THEN /\ Say(s, "need_config")
             /\ UNCHANGED <<user_data, file, tasks, lastMsg, finals, stopSummary, probed,
                          saved, lastProbe, net, watch, schedVars>>
        ELSE IF AlreadyTesting(ud)
        THEN /\ Say(s, "already_running")
             /\ UNCHANGED <<user_data, file, tasks, lastMsg, finals, stopSummary, probed,
                          saved, lastProbe, net, watch, schedVars>>
        ELSE /\ FreeSlots # {}
             /\ Store(s, Started(ud))
             /\ tasks' = [tasks EXCEPT ![LowestFree] = NewTask(s)]
             /\ lastMsg' = [lastMsg EXCEPT ![s] = NoMsg]
             /\ finals' = [finals EXCEPT ![s] = 0]
             /\ stopSummary' = [stopSummary EXCEPT ![s] = <<>>]
             /\ probed' = [probed EXCEPT ![s] = NoProbes]
             /\ Say(s, "started")
             /\ UNCHANGED <<lastProbe, net, watch, schedVars>>

\* Lines 138-143: /start loads the file and, when the loaded flag says a test
\* is under way, creates a run_test task.
Start(s) ==
    LET ud == LoadTestState(file, s, user_data[s])
    IN  /\ user_data' = [user_data EXCEPT ![s] = ud]
        /\ IF ud.testing
           THEN /\ FreeSlots # {}
                /\ tasks' = [tasks EXCEPT ![LowestFree] = NewTask(s)]
                /\ Say(s, "recovering")
           ELSE /\ Say(s, "welcome")
                /\ UNCHANGED tasks
        /\ UNCHANGED <<file, lastMsg, finals, stopSummary, probed, saved, lastProbe, net, watch, schedVars>>

\* Lines 171-179: /seturl <url>.
SetUrl(s, u) ==
    /\ Store(s, [user_data[s] EXCEPT !.url = u])
    /\ Say(s, "url_set")
    /\ UNCHANGED <<tasks, lastMsg, finals, stopSummary, probed, lastProbe, net, watch, schedVars>>

\* Lines 182-191: /setattempts <n>.
SetAttempts(s, n) ==
    /\ Store(s, [user_data[s] EXCEPT !.attempts = n, !.batch_number = 0])
    /\ Say(s, "attempts_set")
    /\ UNCHANGED <<tasks, lastMsg, finals, stopSummary, probed, lastProbe, net, watch, schedVars>>

\* Lines 194-203: /setid <n>.
SetId(s, n) ==
    /\ Store(s, [user_data[s] EXCEPT !.initial_number = n, !.batch_number = 0])
    /\ Say(s, "id_set")
    /\ UNCHANGED <<tasks, lastMsg, finals, stopSummary, probed, lastProbe, net, watch, schedVars>>

\* Lines 309-316: /pause.
Pause(s) ==
    IF ~user_data[s].testing
    THEN /\ Say(s, "no_test")
         /\ UNCHANGED <<user_data, file, tasks, lastMsg, finals, stopSummary, probed,
                          saved, lastProbe, net, watch, schedVars>>
    ELSE /\ Store(s, [user_data[s] EXCEPT !.paused = TRUE])
         /\ Say(s, "paused")
         /\ UNCHANGED <<tasks, lastMsg, finals, stopSummary, probed, lastProbe, net, watch, schedVars>>

\* /resume without the check of line 324.
ResumeUnchecked(s) ==
    IF ~user_data[s].testing
    THEN /\ Say(s, "no_test")
         /\ UNCHANGED <<user_data, file, tasks, lastMsg, finals, stopSummary, probed,
                          saved, lastProbe, net, watch, schedVars>>
    ELSE /\ Store(s, [user_data[s] EXCEPT !.paused = FALSE])
         /\ Say(s, "resumed")
         /\ UNCHANGED <<tasks, lastMsg, finals, stopSummary, probed, lastProbe, net, watch, schedVars>>

\* Lines 319-329: /resume.
Resume(s) ==
    IF ~user_data[s].testing
    THEN /\ Say(s, "no_test")
         /\ UNCHANGED <<user_data, file, tasks, lastMsg, finals, stopSummary, probed,
                          saved, lastProbe, net, watch, schedVars>>
    ELSE IF ~user_data[s].paused
    THEN /\ Say(s, "not_paused")
         /\ UNCHANGED <<user_data, file, tasks, lastMsg, finals, stopSummary, probed,
                          saved, lastProbe, net, watch, schedVars>>
    ELSE /\ Store(s, [user_data[s] EXCEPT !.paused = FALSE])
         /\ Say(s, "resumed")
         /\ UNCHANGED <<tasks, lastMsg, finals, stopSummary, probed, lastProbe, net, watch, schedVars>>

\* Lines 332-347: /stop; the summary lists valid_urls as it is then.
Stop(s) ==
    IF ~user_data[s].testing
    THEN /\ Say(s, "no_test")
         /\ UNCHANGED <<user_data, file, tasks, lastMsg, finals, stopSummary, probed,
                          saved, lastProbe, net, watch, schedVars>>
    ELSE /\ Store(s, [user_data[s] EXCEPT !.testing = FALSE, !.current_index = 0,
                                          !.batch_number = 0])
         /\ lastMsg' = Rec("msg", [lastMsg EXCEPT ![s] = [kind |-> "stopped",
                                                          urls |-> user_data[s].valid_urls]],
                           lastMsg)
         /\ stopSummary' = Rec("msg", [stopSummary EXCEPT ![s] = <<user_data[s].valid_urls>>],
                               stopSummary)
         /\ Say(s, "stopped")
         /\ UNCHANGED <<tasks, finals, probed, lastProbe, net, watch, schedVars>>

\* The process dies and is started again: every task, every user_data and the
\* jobs of the scheduler (kept in memory) are gone, the file stays.
Restart ==
    /\ \E k \in Slots : tasks[k].pc # "none"
    /\ tasks' = [k \in Slots |-> IdleTask]
    /\ user_data' = [s \in Sessions |-> InitUD]
    /\ reply' = [s \in Sessions |-> "none"]
    /\ sdata' = [s \in Sessions |-> InitSData]
    /\ jobs' = [j \in JobIds |-> <<>>]
    /\ runs' = [r \in RunSlots |-> IdleRun]
    /\ UNCHANGED <<file, lastMsg, finals, stopSummary, probed, saved, lastProbe, net, watch>>

\* Lines 48-52: a write of the state file fails (the error is only logged) and
\* leaves no file, or one that was truncated by open(STATE_FILE, 'w').
FileLost ==
    /\ file # <<>> /\ file # Unreadable
    /\ \E f \in {<<>>, Unreadable} : file' = f
    /\ UNCHANGED <<user_data, tasks, lastMsg, finals, stopSummary, probed, reply,
                   saved, lastProbe, net, watch, schedVars>>

\* The process dies inside save_test_state(ud): before open(STATE_FILE, 'w')
\* of line 49 (the file is as it was), after it and before the text written at
\* line 50 has reached the file (open has truncated it: it is empty), or with
\* the text written.  What was in memory is gone.
SaveCrash(s, ud) ==
    /\ \E f \in {file, Unreadable, SaveTestState(file, s, ud)} : file' = f
    /\ tasks' = [k \in Slots |-> IdleTask]
    /\ user_data' = [x \in Sessions |-> InitUD]
    /\ reply' = [x \in Sessions |-> "none"]
    /\ sdata' = [x \in Sessions |-> InitSData]
    /\ jobs' = [j \in JobIds |-> <<>>]
    /\ runs' = [r \in RunSlots |-> IdleRun]
    /\ UNCHANGED <<lastMsg, finals, stopSummary, probed, saved, lastProbe, net, watch>>

\* ------------------------------------------------------------ run_test
\* One step of a run_test task is computed on a context c: the owner's
\* user_data (ud), the file, and the task's frame (t), with the records kept of
\* what the session saved, was told and probed.
Ctx(k) ==
    [ud |-> user_data[tasks[k].sess], file |-> file, t |-> tasks[k],
     msg |-> lastMsg[tasks[k].sess], finals |-> finals[tasks[k].sess],
     probed |-> probed[tasks[k].sess],
     saved |-> saved[tasks[k].sess], lp |-> lastProbe[tasks[k].sess]]

Commit(k, c) ==
    /\ user_data' = [user_data EXCEPT ![tasks[k].sess] = c.ud]
    /\ file' = c.file
    /\ tasks' = [tasks EXCEPT ![k] = c.t]
    /\ lastMsg' = Rec("msg", [lastMsg EXCEPT ![tasks[k].sess] = c.msg], lastMsg)
    /\ finals' = Rec("msg", [finals EXCEPT ![tasks[k].sess] = c.finals], finals)
    /\ probed' = Rec("probes", [probed EXCEPT ![tasks[k].sess] = c.probed], probed)
    /\ saved' = Rec("saved", [saved EXCEPT ![tasks[k].sess] = c.saved], saved)
    /\ lastProbe' = Rec("probe", [lastProbe EXCEPT ![tasks[k].sess] = c.lp], lastProbe)
    /\ UNCHANGED <<stopSummary, reply, net, watch, schedVars>>

Min(a, b) == IF a <= b THEN a ELSE b

\* update.message.reply_text(...) of the loop.
Emit(c, kind, urls) ==
    [c EXCEPT !.msg = [kind |-> kind, urls |-> urls],
              !.finals = IF kind = "final" THEN Min(@ + 1, MaxCount) ELSE @]

\* await save_test_state(context.user_data) in the loop.
Save(c) ==
    [c EXCEPT !.file = SaveTestState(c.file, c.t.sess, c.ud),
              !.saved = <<Snapshot(c.ud)>>]

\* A finally block that never clears the campaign.
NeverFinished(ud, total) == FALSE

\* Line 301: the condition under which the finally block clears the campaign.
Finished(ud, total) == ud.current_index >= total

\* Lines 300-306: the finally block of a frame whose total_attempts is `total`.
Finally(c, total) ==
    IF Finished(c.ud, total)
    THEN Save([c EXCEPT !.ud.testing = FALSE, !.ud.current_index = 0,
                        !.ud.batch_number = 0])
    ELSE c

RECURSIVE FinallyAll(_, _)
FinallyAll(c, totals) ==
    IF totals = <<>> THEN c
    ELSE FinallyAll(Finally(c, totals[Len(totals)]), SubSeq(totals, 1, Len(totals) - 1))

\* The frame ends: its finally block runs, then, line 287 returning, that of
\* each frame that awaits it, and the task is over.
Unwind(c) ==
    [FinallyAll(c, Append(c.t.outer, c.t.total_attempts)) EXCEPT !.t = IdleTask]

\* Ids seven apart instead of consecutive.
SeventhNumber(t) == t.initial_number + 7 * t.i

\* Line 252: current_number = initial_number + i.
CurrentNumber(t) == t.initial_number + t.i

\* Lines 253-256: the url is formatted and check_url is awaited; when format
\* raises, the handler of lines 297-299 sends the error message.
StartProbe(c) ==
    IF FormatRaises(c.t.url_template)
    THEN Emit([c EXCEPT !.t.pc = "lastmsg"], "error", <<>>)
    ELSE [c EXCEPT !.t.pc = "probe",
                   !.probed[c.t.i] = [n |-> Min(@.n + 1, MaxCount),
                                      id |-> CurrentNumber(c.t)]]

\* Lines 272-279: after the for loop.  valid_urls is read into the local of
\* line 273 here (exact unless another task appends to the same list before
\* the summary of line 291 is sent).
EndOfBatch(c) ==
    IF c.ud.testing
    THEN Emit([c EXCEPT !.t.pc = "batchdone", !.t.valid_urls = c.ud.valid_urls],
              "batch_done", c.ud.valid_urls)
    ELSE Unwind(c)

\* The head of the iteration without the pause loop of lines 248-250.
IterateUnpaused(c, i) ==
    IF i >= c.t.end_index \/ ~c.ud.testing
    THEN EndOfBatch([c EXCEPT !.t.i = i])
    ELSE StartProbe([c EXCEPT !.t.i = i])

\* Lines 245-250: the head of the iteration for index i.
Iterate(c, i) ==
    IF i >= c.t.end_index \/ ~c.ud.testing
    THEN EndOfBatch([c EXCEPT !.t.i = i])
    ELSE IF c.ud.paused
    THEN [c EXCEPT !.t.pc = "pausewait", !.t.i = i]
    ELSE StartProbe([c EXCEPT !.t.i = i])

\* Line 234: where the batch read from user_data starts.
StartIndex(batch_number, batch_size) == batch_number * batch_size

\* Lines 227-243: run_test is entered; the frame reads its configuration from
\* user_data.
Enter(c) ==
    LET ud == c.ud
        start == StartIndex(ud.batch_number, ud.batch_size)
        remaining == ud.attempts - start
        t == [c.t EXCEPT !.url_template = ud.url, !.total_attempts = ud.attempts,
                         !.initial_number = ud.initial_number,
                         !.batch_size = ud.batch_size,
                         !.batch_number = ud.batch_number,
                         !.start_index = start, !.i = start,
                         !.valid_urls = <<>>]
    IN  IF remaining <= 0
        THEN Emit([c EXCEPT !.t = [t EXCEPT !.pc = "lastmsg", !.end_index = start]],
                  "all_done", <<>>)
        ELSE Emit([c EXCEPT !.t = [t EXCEPT !.pc = "batchmsg",
                                            !.end_index = start + Min(ud.batch_size, remaining)]],
                  "batch_start", <<>>)

\* The task created by /test or /start runs for the first time.
TaskBegin(k) ==
    /\ tasks[k].pc = "created"
    /\ Commit(k, Enter(Ctx(k)))

\* Line 243 has been sent: the for loop starts.
AfterBatchMsg(k) ==
    /\ tasks[k].pc = "batchmsg"
    /\ Commit(k, Iterate(Ctx(k), tasks[k].start_index))

\* Lines 249-250: a poll of the pause loop that finds it may go on; the
\* probe of line 256 follows without another look at the flags.
PauseWake(k) ==
    /\ tasks[k].pc = "pausewait"
    /\ ~(user_data[tasks[k].sess].paused /\ user_data[tasks[k].sess].testing)
    /\ Commit(k, StartProbe(Ctx(k)))

\* Line 261: when the state is saved after an attempt.
SavePoint(i, end_index) == (i + 1) % SaveEvery = 0 \/ i + 1 = end_index

\* Lines 256-265: check_url returns; the result and the cursor are recorded,
\* the state is saved at a save point, and the loop sleeps.  An exception
\* leaving check_url would be caught at line 297.
ProbeReturn(k) ==
    /\ tasks[k].pc = "probe"
    /\ \E outs \in Transport(net, Format(tasks[k].url_template, CurrentNumber(tasks[k]))) :
         LET c == Ctx(k)
             t == tasks[k]
             r == CheckUrl(outs, FALSE)
             c0 == [c EXCEPT !.lp = [done |-> TRUE, outs |-> outs, valid |-> r.valid,
                                     gets |-> r.gets, raised |-> r.raised]]
             c1 == IF r.valid
                   THEN [c0 EXCEPT !.ud.valid_urls =
                                      Append(@, Format(t.url_template, CurrentNumber(t)))]
                   ELSE c0
             c2 == [c1 EXCEPT !.ud.current_index = t.i + 1, !.t.pc = "sleep"]
         IN  /\ r.valid => Len(c.ud.valid_urls) < MaxValid
             /\ IF r.raised
                THEN Commit(k, Emit([c0 EXCEPT !.t.pc = "lastmsg"], "error", <<>>))
                ELSE Commit(k, IF SavePoint(t.i, t.end_index) THEN Save(c2) ELSE c2)

\* Lines 265-269: the sleep of one second is over; at a multiple of 300 the
\* progress message is sent, otherwise the next iteration starts.
SleepWake(k) ==
    /\ tasks[k].pc = "sleep"
    /\ IF (tasks[k].i + 1) % ProgressEvery = 0
       THEN Commit(k, Emit([Ctx(k) EXCEPT !.t.pc = "progress"], "progress", <<>>))
       ELSE Commit(k, Iterate(Ctx(k), tasks[k].i + 1))

\* Line 269 has been sent.
AfterProgress(k) ==
    /\ tasks[k].pc = "progress"
    /\ Commit(k, Iterate(Ctx(k), tasks[k].i + 1))

\* Lines 281-295: the batch message has been sent; either the next batch is
\* announced (batch_number stored and saved, then a sleep of ten seconds) or
\* the final summary is sent.
AfterBatchDone(k) ==
    /\ tasks[k].pc = "batchdone"
    /\ LET c == Ctx(k)
           t == tasks[k]
       IN  IF t.end_index < t.total_attempts
           THEN Commit(k, Emit(Save([c EXCEPT !.ud.batch_number = t.batch_number + 1,
                                              !.t.pc = "batchsleep"]),
                               "next_batch", <<>>))
           ELSE Commit(k, Emit([c EXCEPT !.t.pc = "lastmsg"], "final", t.valid_urls))

\* Line 287: after the ten seconds run_test calls itself; the calling frame
\* keeps only its total_attempts, for its finally block.
NextBatch(k) ==
    /\ tasks[k].pc = "batchsleep"
    /\ Len(tasks[k].outer) < MaxDepth
    /\ Commit(k, Enter([Ctx(k) EXCEPT !.t.outer = Append(@, tasks[k].total_attempts)]))

\* The last message of a frame (lines 237, 290-294 or 299) has been sent: the
\* finally blocks run and the task ends.
TaskEnd(k) ==
    /\ tasks[k].pc = "lastmsg"
    /\ Commit(k, Unwind(Ctx(k)))

LoopStep(k) ==
    \/ TaskBegin(k)
    \/ AfterBatchMsg(k)
    \/ PauseWake(k)
    \/ ProbeReturn(k)
    \/ SleepWake(k)
    \/ AfterProgress(k)
    \/ AfterBatchDone(k)
    \/ NextBatch(k)
    \/ TaskEnd(k)

\* ------------------------------------------------------------ the scheduler
\* A piece of the text handed to strptime: its characters and the number they
\* spell (-1 when they are not digits).
Tok(text, num) == [text |-> text, num |-> num]

\* Line 365: the format "%Y-%m-dd %H:%M", piece by piece.  Its third piece is
\* the two letters "dd", not the directive %d.
ScheduleFormat == <<"%Y", "%m", "dd", "%H", "%M">>

\* strptime: one piece of the format against one piece of the text.  A
\* directive takes digits in its range, anything else takes itself.
Matches(d, tok) ==
    CASE d = "%Y" -> tok.num \in 1..9999
      [] d = "%m" -> tok.num \in 1..12
      [] d = "%d" -> tok.num \in 1..31
      [] d = "%H" -> tok.num \in 0..23
      [] d = "%M" -> tok.num \in 0..59
      [] OTHER -> tok.text = d

\* The value strptime gives a field: the digits its directive took, or the
\* default when the format has no such directive.
Field(toks, fmt, d, default) ==
    IF \E j \in 1..Len(fmt) : fmt[j] = d
    THEN toks[CHOOSE j \in 1..Len(fmt) : fmt[j] = d].num
    ELSE default

\* datetime.strptime(text, fmt): ok is FALSE where it raises ValueError.
Strptime(toks, fmt) ==
    IF Len(toks) = Len(fmt) /\ \A j \in 1..Len(fmt) : Matches(fmt[j], toks[j])
    THEN [ok |-> TRUE, year |-> Field(toks, fmt, "%Y", 1900),
          month |-> Field(toks, fmt, "%m", 1), day |-> Field(toks, fmt, "%d", 1),
          hour |-> Field(toks, fmt, "%H", 0), minute |-> Field(toks, fmt, "%M", 0)]
    ELSE [ok |-> FALSE, year |-> 0, month |-> 0, day |-> 0, hour |-> 0, minute |-> 0]

\* The names pytz.timezone knows (two of them).
KnownZones == {"GMT", "Asia/Tokyo"}

\* A request that is refused only for its time, whatever the zone.
BadTimeOnly(args) == ~Strptime(args[1] \o args[2], ScheduleFormat).ok

\* Lines 363-368: strptime raises ValueError or pytz.timezone raises
\* UnknownTimeZoneError.
BadSchedule(args) ==
    \/ ~Strptime(args[1] \o args[2], ScheduleFormat).ok
    \/ args[3] \notin KnownZones

\* Lines 364-367: the instant the job is to run at.
RunDate(args) ==
    [at |-> Strptime(args[1] \o args[2], ScheduleFormat), tz |-> args[3]]

\* A handler that changes nothing and answers `what`.
Answer(s, what) ==
    /\ Say(s, what)
    /\ UNCHANGED <<user_data, file, tasks, lastMsg, finals, stopSummary, probed,
                   saved, lastProbe, net, watch, schedVars>>

\* scheduler.add_job(..., id=id) without replace_existing, on the running
\* scheduler: the job is stored, or ConflictingIdError is raised when a job of
\* that id is pending and the handler ends there without an answer.
AddJob(s, id, job, answer) ==
    IF jobs[id] = <<>>
    THEN /\ jobs' = [jobs EXCEPT ![id] = <<job>>]
         /\ Say(s, answer)
    ELSE /\ UNCHANGED jobs
         /\ Say(s, "raised")

\* Lines 350-390: /scheduletest <date> <time> <zone>; args holds the words
\* given after the command.
ScheduleTest(s, args) ==
    LET ud == user_data[s]
    IN  IF ud.url = NoUrl \/ ud.attempts = NoAttempts
        THEN Answer(s, "need_config")
        ELSE IF Len(args) < 3
        THEN Answer(s, "usage")
        ELSE IF BadSchedule(args)
        THEN Answer(s, "invalid_time")
        ELSE /\ sdata' = [sdata EXCEPT ![s].scheduled =
                              <<[url |-> ud.url, attempts |-> ud.attempts,
                                 initial_number |-> ud.initial_number, chat_id |-> s]>>]
             /\ file' = SaveTestState(file, s, ud)
             /\ saved' = Rec("saved", [saved EXCEPT ![s] = <<Snapshot(ud)>>], saved)
             /\ AddJob(s, "scheduled_test", [owner |-> s, run_date |-> RunDate(args)],
                       "scheduled")
             /\ UNCHANGED <<user_data, tasks, lastMsg, finals, stopSummary, probed,
                            lastProbe, net, watch, runs>>

\* scheduler.get_job(id) / remove_job(id), as /stopschedule and
\* /stopimagecheck use them.
RemoveJob(s, id, removed, none) ==
    IF jobs[id] # <<>>
    THEN /\ jobs' = [jobs EXCEPT ![id] = <<>>]
         /\ Say(s, removed)
         /\ UNCHANGED <<user_data, file, tasks, lastMsg, finals, stopSummary, probed,
                        saved, lastProbe, net, watch, sdata, runs>>
    ELSE Answer(s, none)

\* Lines 431-437: /stopschedule.
StopSchedule(s) == RemoveJob(s, "scheduled_test", "cancelled", "no_schedule")

\* Line 447: the links kept are those that start with http.
ValidLinks(links) == SelectSeq(links, LAMBDA l : l.tpl = "http")

\* Lines 440-456: /setimagelinks <links>; links is <<>> when no word is given.
SetImageLinks(s, links) ==
    IF links = <<>>
    THEN Answer(s, "usage")
    ELSE IF ValidLinks(links) = <<>>
    THEN Answer(s, "no_valid_link")
    ELSE /\ sdata' = [sdata EXCEPT ![s].image_links = <<ValidLinks(links)>>]
         /\ file' = SaveTestState(file, s, user_data[s])
         /\ saved' = Rec("saved", [saved EXCEPT ![s] = <<Snapshot(user_data[s])>>], saved)
         /\ Say(s, "links_set")
         /\ UNCHANGED <<user_data, tasks, lastMsg, finals, stopSummary, probed,
                        lastProbe, net, watch, jobs, runs>>

\* Lines 478-492: /scheduleimagecheck.
ScheduleImageCheck(s) ==
    IF sdata[s].image_links = <<>>
    THEN Answer(s, "need_links")
    ELSE /\ sdata' = [sdata EXCEPT ![s].image_check_chat_id = s]
         /\ AddJob(s, "image_check", [owner |-> s, run_date |-> "hourly"], "hourly")
         /\ UNCHANGED <<user_data, file, tasks, lastMsg, finals, stopSummary, probed,
                        saved, lastProbe, net, watch, runs>>

\* Lines 514-521: /stopimagecheck.
StopImageCheck(s) == RemoveJob(s, "image_check", "hourly_stopped", "no_hourly")

RECURSIVE ImageResults(_, _)
\* Lines 497-500: the lists of valid images that the probes of the links, in
\* order, can give.
ImageResults(world, links) ==
    IF links = <<>> THEN {<<>>}
    ELSE {(IF CheckUrl(outs, TRUE).valid THEN <<Head(links)>> ELSE <<>>) \o rest :
             outs \in Transport(world, Head(links)),
             rest \in ImageResults(world, Tail(links))}

\* Lines 495-512: the hour is over and run_image_check runs, with the
\* user_data of the session that scheduled it; the job stays.  (The run is
\* taken as one step: it reads image_links and writes nothing.)
FireImageCheck ==
    /\ jobs["image_check"] # <<>>
    /\ LET o == jobs["image_check"][1].owner
           chat == sdata[o].image_check_chat_id
       IN  /\ chat \in Sessions
           /\ \E urls \in ImageResults(net, sdata[o].image_links[1]) :
                 lastMsg' = Rec("msg", [lastMsg EXCEPT ![chat] =
                                          [kind |-> "image_check", urls |-> urls]], lastMsg)
    /\ UNCHANGED <<user_data, file, tasks, finals, stopSummary, probed, reply,
                   saved, lastProbe, net, watch, schedVars>>

\* A scheduled run that ends when the interactive campaign is paused.
SIteratePausable(f, i) ==
    IF i >= f.attempts \/ user_data[f.sess].paused
    THEN [f EXCEPT !.i = i, !.pc = "lastmsg", !.msg = "final"]
    ELSE [f EXCEPT !.i = i, !.pc = "probe", !.probes = @ + 1]

\* Lines 402-404 and 414-423: the head of iteration i of run_scheduled_test,
\* up to the await of check_url, of the final message, or of the message of
\* line 428 when the url cannot be formatted.
SIterate(f, i) ==
    IF i >= f.attempts
    THEN [f EXCEPT !.i = i, !.pc = "lastmsg", !.msg = "final"]
    ELSE IF FormatRaises(f.url_template)
    THEN [f EXCEPT !.i = i, !.pc = "lastmsg", !.msg = "error"]
    ELSE [f EXCEPT !.i = i, !.pc = "probe", !.probes = @ + 1]

\* The run date has come: the job leaves the store and run_scheduled_test
\* starts with the user_data of the session that scheduled it (args of line
\* 384), reading scheduled_* as they are now (lines 395-398).
FireScheduledTest(r) ==
    /\ jobs["scheduled_test"] # <<>>
    /\ runs[r].pc = "none"
    /\ LET o == jobs["scheduled_test"][1].owner
           sd == sdata[o].scheduled[1]
       IN  runs' = [runs EXCEPT ![r] =
                      SIterate([IdleRun EXCEPT !.sess = o, !.url_template = sd.url,
                                               !.attempts = sd.attempts,
                                               !.initial_number = sd.initial_number,
                                               !.chat_id = sd.chat_id], 0)]
    /\ jobs' = [jobs EXCEPT !["scheduled_test"] = <<>>]
    /\ UNCHANGED <<user_data, file, tasks, lastMsg, finals, stopSummary, probed, reply,
                   saved, lastProbe, net, watch, sdata>>

\* A step of run_scheduled_test: only its frame changes.
RunStep(r, f) ==
    /\ runs' = [runs EXCEPT ![r] = f]
    /\ UNCHANGED <<user_data, file, tasks, lastMsg, finals, stopSummary, probed, reply,
                   saved, lastProbe, net, watch, sdata, jobs>>

\* Lines 407-409: check_url returns; a valid url joins the local list and the
\* coroutine sleeps.
SProbeReturn(r) ==
    /\ runs[r].pc = "probe"
    /\ LET f == runs[r]
           url == Format(f.url_template, f.initial_number + f.i)
       IN  \E outs \in Transport(net, url) :
              RunStep(r, [f EXCEPT !.pc = "sleep",
                                   !.valid_urls = IF CheckUrl(outs, FALSE).valid
                                                  THEN Append(@, url) ELSE @])

\* Lines 409-412: after the second of sleep, the progress message at a
\* multiple of 300, else the next iteration.
SSleepWake(r) ==
    /\ runs[r].pc = "sleep"
    /\ IF (runs[r].i + 1) % ProgressEvery = 0
       THEN RunStep(r, [runs[r] EXCEPT !.pc = "progress", !.msg = "progress"])
       ELSE RunStep(r, SIterate(runs[r], runs[r].i + 1))

\* Line 412 has been sent.
SAfterProgress(r) ==
    /\ runs[r].pc = "progress"
    /\ RunStep(r, SIterate(runs[r], runs[r].i + 1))

\* The last message (lines 415-423 or 428) has been sent: the coroutine ends.
SEnd(r) ==
    /\ runs[r].pc = "lastmsg"
    /\ RunStep(r, IdleRun)

ScheduledStep(r) ==
    \/ SProbeReturn(r)
    \/ SSleepWake(r)
    \/ SAfterProgress(r)
    \/ SEnd(r)

\* ------------------------------------------------------- specifications
UrlChoices == {"T"}
AttemptChoices == {4}

\* A configuration command of a session that is not testing and has no task.
Configure(s, attempts, ids) ==
    /\ ~user_data[s].testing
    /\ Live(s) = {}
    /\ \/ \E u \in UrlChoices : SetUrl(s, u)
       \/ \E n \in attempts : SetAttempts(s, n)
       \/ \E n \in ids : SetId(s, n)

\* A configuration command sent while a test is under way.
Reconfigure(s, attempts, ids) ==
    /\ user_data[s].testing
    /\ \/ \E u \in UrlChoices : SetUrl(s, u)
       \/ \E n \in attempts : SetAttempts(s, n)
       \/ \E n \in ids : SetId(s, n)

\* One session; /test, /stop, /pause, /resume and /start at any moment.
Next ==
    \/ Configure("A", AttemptChoices, {DefaultInitialNumber})
    \/ Test("A")
    \/ Start("A")
    \/ Pause("A")
    \/ Resume("A")
    \/ Stop("A")
    \/ \E k \in Slots : LoopStep(k)

Spec == Init /\ [][Next]_vars

\* The same commands, with the handlers' answers kept.
SpecReply == InitIn({"mixed"}, {"reply"}) /\ [][Next]_vars

\* The same commands, with the campaign's messages kept.
SpecMsg == InitIn({"mixed"}, {"msg"}) /\ [][Next]_vars

\* A campaign left alone: the session is configured while idle, then /test,
\* /pause and /resume only.  The loop is not starved (between two of its
\* awaits it always goes on), a resume that is possible comes, and the poll
\* of the pause loop (every second) sees a pause that was lifted.
CampaignAttempts == {3, 7}
IdChoices == {100, 105}

NextCampaign ==
    \/ Configure("A", CampaignAttempts, IdChoices)
    \/ Test("A")
    \/ Pause("A")
    \/ Resume("A")
    \/ \E k \in Slots : LoopStep(k)

SpecCampaign ==
    /\ InitIn({"only107", "mixed"}, {"probes", "msg"})
    /\ [][NextCampaign]_vars
    /\ SF_vars(\E k \in Slots : LoopStep(k))
    /\ WF_vars(Resume("A"))

\* The process can die and be started again; /start is then sent with no
\* task alive (the recovery of lines 140-143).
NextRecovery ==
    \/ Configure("A", AttemptChoices, {DefaultInitialNumber})
    \/ Test("A")
    \/ Pause("A")
    \/ Resume("A")
    \/ Restart
    \/ (Live("A") = {} /\ Start("A"))
    \/ \E k \in Slots : LoopStep(k)

SpecRecovery == InitIn({"mixed"}, {"probes", "msg"}) /\ [][NextRecovery]_vars

\* A campaign against a network where every GET can end in every way.
NextProbe ==
    \/ Configure("A", AttemptChoices, {DefaultInitialNumber})
    \/ Test("A")
    \/ Pause("A")
    \/ Resume("A")
    \/ \E k \in Slots : LoopStep(k)

SpecProbe == InitIn({"any"}, {"probe", "msg"}) /\ [][NextProbe]_vars

\* Two sessions: A configures and tests; B sets its url, sends /start when it
\* has no task, pauses and resumes.
NextStore ==
    \/ Configure("A", AttemptChoices, {DefaultInitialNumber})
    \/ Test("A")
    \/ Configure("B", {}, {})
    \/ (Live("B") = {} /\ Start("B"))
    \/ Pause("B")
    \/ Resume("B")
    \/ \E k \in Slots : LoopStep(k)

SpecStore == InitIn({"mixed"}, {"saved"}) /\ [][NextStore]_vars

\* /start at any moment, and a state file that can be lost.
NextLoad ==
    \/ Configure("A", AttemptChoices, IdChoices)
    \/ Test("A")
    \/ Start("A")
    \/ Pause("A")
    \/ Resume("A")
    \/ FileLost
    \/ \E k \in Slots : LoopStep(k)

SpecLoad == InitIn({"mixed"}, {}) /\ [][NextLoad]_vars

\* What the users type after /scheduletest and /setimagelinks.
DateDocumented == <<Tok("2025", 2025), Tok("05", 5), Tok("10", 10)>>
DateLiteral == <<Tok("2025", 2025), Tok("05", 5), Tok("dd", -1)>>
TimeGood == <<Tok("14", 14), Tok("30", 30)>>
TimeBad == <<Tok("25", 25), Tok("99", 99)>>
ZoneChoices == {"GMT", "Mars/Phobos"}
ScheduleArgs ==
    {<<d, TimeGood, z>> : d \in {DateDocumented, DateLiteral}, z \in ZoneChoices}
        \cup {<<DateLiteral, TimeBad, "GMT">>, <<DateDocumented, TimeGood>>}
LinkArgs ==
    {<<>>, <<[tpl |-> "ftp", n |-> 1]>>,
     <<[tpl |-> "http", n |-> 107], [tpl |-> "ftp", n |-> 2]>>}

\* Two sessions and the job store, before the date of the one-shot job: the
\* sessions are configured and schedule, A also cancels and sends requests
\* that lack a word; the hourly job fires.
NextJobs ==
    \/ \E s \in Sessions : Configure(s, {BatchSize}, {})
    \/ \E args \in ScheduleArgs : ScheduleTest("A", args)
    \/ \E args \in ScheduleArgs : Len(args) = 3 /\ ScheduleTest("B", args)
    \/ StopSchedule("A")
    \/ \E links \in LinkArgs : SetImageLinks("A", links)
    \/ \E links \in LinkArgs : ValidLinks(links) # <<>> /\ SetImageLinks("B", links)
    \/ \E s \in Sessions : ScheduleImageCheck(s)
    \/ StopImageCheck("A")
    \/ FireImageCheck

SpecJobs == InitIn({"mixed"}, {"reply"}) /\ [][NextJobs]_vars

\* One session with an interactive campaign and a scheduled test; /test and
\* /start are sent when no loop of an earlier campaign is left.  A scheduled
\* run is not starved: between two of its awaits it goes on.
ScheduledAttempts == {4}

NextScheduled ==
    \/ Configure("A", ScheduledAttempts, {DefaultInitialNumber})
    \/ ScheduleTest("A", <<DateLiteral, TimeGood, "GMT">>)
    \/ \E r \in RunSlots : FireScheduledTest(r)
    \/ \E r \in RunSlots : ScheduledStep(r)
    \/ (Live("A") = {} /\ Test("A"))
    \/ Pause("A")
    \/ Resume("A")
    \/ Stop("A")
    \/ (Live("A") = {} /\ Start("A"))
    \/ \E k \in Slots : LoopStep(k)

SpecScheduled ==
    /\ InitIn({"mixed"}, {})
    /\ [][NextScheduled]_vars
    /\ \A r \in RunSlots : WF_vars(ScheduledStep(r))

\* One campaign at a time, with /pause, /resume and /stop at any moment and
\* the handlers' answers kept.
NextPause ==
    \/ Configure("A", AttemptChoices, {DefaultInitialNumber})
    \/ (Live("A") = {} /\ Test("A"))
    \/ Pause("A")
    \/ Resume("A")
    \/ Stop("A")
    \/ \E k \in Slots : LoopStep(k)

SpecPause == InitIn({"mixed"}, {"reply"}) /\ [][NextPause]_vars

\* The same commands, with the probes and the campaign's messages kept.
SpecStop == InitIn({"mixed"}, {"probes", "msg"}) /\ [][NextPause]_vars

\* One campaign at a time, whose url template may be one that format refuses.
NextError ==
    \/ Configure("A", AttemptChoices, {DefaultInitialNumber})
    \/ (~user_data["A"].testing /\ Live("A") = {} /\ SetUrl("A", BadTemplate))
    \/ (Live("A") = {} /\ Test("A"))
    \/ Pause("A")
    \/ Resume("A")
    \/ Stop("A")
    \/ \E k \in Slots : LoopStep(k)

SpecError == InitIn({"mixed"}, {"reply"}) /\ [][NextError]_vars

\* One campaign at a time, with /seturl, /setattempts and /setid also sent
\* while it runs.
NextReconf ==
    \/ Configure("A", AttemptChoices, {DefaultInitialNumber})
    \/ (Live("A") = {} /\ Test("A"))
    \/ Reconfigure("A", {2, 4}, {DefaultInitialNumber})
    \/ Pause("A")
    \/ Resume("A")
    \/ \E k \in Slots : LoopStep(k)

SpecReconf == InitIn({"mixed"}, {}) /\ [][NextReconf]_vars

\* Line 314: the snapshot /pause saves.
PauseSnapshot(s) == [user_data[s] EXCEPT !.paused = TRUE]

\* The process dies while /pause, sent during a test, is saving.
PauseCrash(s) ==
    /\ user_data[s].testing
    /\ SaveCrash(s, PauseSnapshot(s))

\* One campaign at a time; the process can die while /pause saves, and
\* /start is sent when no task is alive.
NextCrash ==
    \/ Configure("A", AttemptChoices, {DefaultInitialNumber})
    \/ (Live("A") = {} /\ Test("A"))
    \/ Pause("A")
    \/ Resume("A")
    \/ PauseCrash("A")
    \/ (Live("A") = {} /\ Start("A"))
    \/ \E k \in Slots : LoopStep(k)

SpecCrash == InitIn({"mixed"}, {}) /\ [][NextCrash]_vars

\* Two sessions, each with its own campaign, and the one state file: both
\* configure and send /test when they have no loop; A also sends /pause,
\* /resume and /stop, and /start when it has no loop.
NextShared ==
    \/ \E s \in Sessions : Configure(s, AttemptChoices, {})
    \/ \E s \in Sessions : (Live(s) = {} /\ Test(s))
    \/ Pause("A")
    \/ Resume("A")
    \/ Stop("A")
    \/ (Live("A") = {} /\ Start("A"))
    \/ \E k \in Slots : LoopStep(k)

SpecShared == InitIn({"mixed"}, {"msg"}) /\ [][NextShared]_vars

\* One session that configures, schedules a test, configures again and
\* schedules again before the date, or cancels; the job fires and runs.
NextCapture ==
    \/ Configure("A", {2, 4}, IdChoices)
    \/ ScheduleTest("A", <<DateLiteral, TimeGood, "GMT">>)
    \/ StopSchedule("A")
    \/ \E r \in RunSlots : FireScheduledTest(r)
    \/ \E r \in RunSlots : ScheduledStep(r)

SpecCapture == InitIn({"mixed"}, {"reply"}) /\ [][NextCapture]_vars

\* ------------------------------------------------------------------ claims
\* A loop that is probing, sleeping between attempts, waiting while paused or
\* sleeping between batches.
ActiveLoops(s) ==
    {k \in Live(s) : tasks[k].pc \in {"probe", "sleep", "pausewait", "batchsleep"}}

\* C1: for one session there is never more than one active run_test loop,
\* whatever the interleaving of /test, /stop, /pause, /resume and /start with
\* the steps of run_test.
C1_OneActiveLoop == \A s \in Sessions : Cardinality(ActiveLoops(s)) <= 1

\* C2: /test while the testing flag is set is refused: it creates no task and
\* leaves user_data (testing, paused, valid_urls, current_index, batch_number
\* and the rest) and the file as they were.
C2_StartWhileRunningRejected ==
    [][\A s \in Sessions :
          (user_data[s].testing /\ Test(s))
             => /\ reply'[s] = "already_running"
                /\ UNCHANGED <<user_data, file, tasks>>]_vars

\* C2 witness: a campaign under way (attempts made, a loop alive) has refused
\* a /test.
C2_Witness ==
    /\ reply["A"] = "already_running"
    /\ user_data["A"].testing
    /\ user_data["A"].current_index > 0
    /\ Live("A") # {}

\* C4: after /stop the campaign is not testing and valid_urls stays what the
\* summary of /stop listed (until the next /test).
C4_StopSummaryIsFinal ==
    \A s \in Sessions :
        stopSummary[s] # <<>>
           => /\ ~user_data[s].testing
              /\ user_data[s].valid_urls = stopSummary[s][1]

\* The campaign of s has ended by itself: the final summary was sent and the
\* task is over.
Completed(s) == finals[s] >= 1 /\ Live(s) = {}

\* Every attempt index below total has been probed once, and no other.
ProbedOnceEach(s, total) ==
    \A i \in 0..(MaxAttempts - 1) : probed[s][i].n = (IF i < total THEN 1 ELSE 0)

\* The attempt indexes probed so far are 0, 1, .. without a gap, each once.
ProbedInOrder(s) ==
    \A i \in 0..(MaxAttempts - 1) :
        /\ probed[s][i].n <= 1
        /\ probed[s][i].n = 1 => \A j \in 0..(i - 1) : probed[s][j].n = 1

\* C3: /pause and /resume lose and repeat no attempt: the indexes are probed
\* in order, each once, and all of 0..total-1 by the end; no probe starts while
\* the campaign is paused; and valid_urls only grows, by the result of the
\* attempt that has just returned.
C3_PauseResumeKeepsAttempts ==
    /\ [](\A s \in Sessions : ProbedInOrder(s))
    /\ [][\A s \in Sessions :
            /\ (~Completed(s) /\ Completed(s)')
                  => ProbedOnceEach(s, user_data[s].attempts)'
            /\ (user_data[s].paused /\ user_data'[s].paused /\ user_data[s].testing)
                  => probed'[s] = probed[s]
            /\ user_data[s].testing
                  => \/ user_data'[s].valid_urls = user_data[s].valid_urls
                     \/ \E k \in Live(s) :
                          /\ tasks[k].pc = "probe"
                          /\ tasks[k].i >= user_data[s].current_index
                          /\ user_data'[s].valid_urls =
                                Append(user_data[s].valid_urls,
                                       Format(user_data[s].url,
                                              user_data[s].initial_number + tasks[k].i))]_vars

\* C3 witness: a campaign paused in its second batch, with results found
\* before the pause, whose loop waits in the pause loop.
C3_Witness ==
    /\ user_data["A"].testing /\ user_data["A"].paused
    /\ user_data["A"].valid_urls # <<>>
    /\ \E k \in Live("A") : tasks[k].pc = "pausewait" /\ tasks[k].i > BatchSize

\* How a campaign that ended by itself leaves the session.
EndedClean(s) ==
    /\ finals[s] = 1
    /\ ProbedOnceEach(s, user_data[s].attempts)
    /\ ~user_data[s].testing
    /\ user_data[s].current_index = 0
    /\ user_data[s].batch_number = 0

FinalSent(s) ==
    /\ lastMsg[s].kind = "final"
    /\ \E k \in Live(s) : tasks[k].pc = "lastmsg"

\* Whether the probe of url finds it valid in a world where a url always
\* behaves the same way.
ValidIn(world, url) == \E outs \in Transport(world, url) : CheckUrl(outs, FALSE).valid

RECURSIVE ValidFrom(_, _, _, _, _)
\* The valid urls among attempts i..total-1 of a campaign, in order.
ValidFrom(world, tpl, start, i, total) ==
    IF i >= total THEN <<>>
    ELSE (IF ValidIn(world, Format(tpl, start + i)) THEN <<Format(tpl, start + i)>> ELSE <<>>)
         \o ValidFrom(world, tpl, start, i + 1, total)

\* What a run that is never interrupted ends with.
Uninterrupted(world, ud) == ValidFrom(world, ud.url, ud.initial_number, 0, ud.attempts)

\* C6: a campaign resumed by /start from the saved snapshot after the process
\* died ends with the valid_urls of a run that was never interrupted.
C6_RecoveryEquivalent ==
    \A s \in Sessions :
        FinalSent(s) => lastMsg[s].urls = Uninterrupted(net, user_data[s])

RECURSIVE Stride(_, _, _, _)
\* The id of attempt i and the count of consecutive invalid outcomes before it
\* under the rule "+7, and +17 after the fifth invalid outcome in a row".
Stride(world, tpl, start, i) ==
    IF i = 0 THEN [id |-> start, inv |-> 0]
    ELSE LET p == Stride(world, tpl, start, i - 1)
         IN  IF ValidIn(world, Format(tpl, p.id)) THEN [id |-> p.id + 7, inv |-> 0]
             ELSE IF p.inv + 1 >= 5 THEN [id |-> p.id + 17, inv |-> 0]
             ELSE [id |-> p.id + 7, inv |-> p.inv + 1]

C8_ChunkSnapshotsAgree ==
    (/\ file # <<>>
     /\ file[1].testing
     /\ file[1].current_index > 0
     /\ \/ file[1].current_index % file[1].batch_size = 0
        \/ file[1].current_index = file[1].attempts)
       => StartIndex(file[1].batch_number, file[1].batch_size) = file[1].current_index

\* C9: check_url returns a value for every sequence of transport outcomes: it
\* issues at most `retries` GETs, another GET only after an exception, and
\* False when every GET raised; the loop is not ended by a failing probe.
C9_ProbeNeverRaises ==
    \A s \in Sessions :
        lastProbe[s].done
           => /\ ~lastProbe[s].raised
              /\ lastProbe[s].gets \in 1..Retries
              /\ \A j \in 1..(lastProbe[s].gets - 1) : lastProbe[s].outs[j] = "exc"
              /\ (lastProbe[s].gets < Retries => lastProbe[s].outs[lastProbe[s].gets] # "exc")
              /\ (\A j \in 1..Retries : lastProbe[s].outs[j] = "exc") => ~lastProbe[s].valid
              /\ lastMsg[s].kind # "error"

\* C9 witness: a probe has failed on every GET and the loop has gone on to the
\* next attempt.
C9_Witness ==
    /\ lastProbe["A"].done
    /\ \A j \in 1..Retries : lastProbe["A"].outs[j] = "exc"
    /\ lastProbe["A"].gets = Retries
    /\ \E k \in Live("A") :
          tasks[k].pc = "probe" /\ tasks[k].i = user_data["A"].current_index
                                /\ tasks[k].i > 0

\* C10: what load_test_state reads for a session is what that session last
\* saved (nothing when it never saved).
C10_LoadReturnsOwnSnapshot == \A s \in Sessions : file = saved[s]

\* C11: /start with a missing or unreadable state file leaves user_data as it
\* was and creates no run_test task.
C11_FailedLoadResumesNothing ==
    [][\A s \in Sessions :
          ((file = <<>> \/ file = Unreadable) /\ Start(s))
             => UNCHANGED <<user_data, tasks>>]_vars

\* The session has a url and a number of attempts.
Configured(s) == user_data[s].url # NoUrl /\ user_data[s].attempts # NoAttempts

\* C12: /scheduletest 2025-05-10 14:30 GMT, from a configured session and with
\* no job pending, registers the one-shot job for that instant in that zone.
C12_DocumentedDateAccepted ==
    [][\A s \in Sessions :
          (/\ Configured(s)
           /\ jobs["scheduled_test"] = <<>>
           /\ ScheduleTest(s, <<DateDocumented, TimeGood, "GMT">>))
             => /\ reply'[s] = "scheduled"
                /\ jobs'["scheduled_test"] =
                      <<[owner |-> s,
                         run_date |-> [at |-> [ok |-> TRUE, year |-> 2025, month |-> 5,
                                               day |-> 10, hour |-> 14, minute |-> 30],
                                       tz |-> "GMT"]]>>]_vars

\* C13: /scheduletest with a time that is no time of day (25:99) or a zone
\* that does not exist is refused: the answer is the refusal, and the jobs,
\* the scheduled_* keys, user_data, the file and the runs stay as they were.
C13_BadRequestChangesNothing ==
    [][\A s \in Sessions : \A args \in ScheduleArgs :
          (/\ Configured(s)
           /\ Len(args) = 3
           /\ (args[2] = TimeBad \/ args[3] = "Mars/Phobos")
           /\ ScheduleTest(s, args))
             => /\ reply'[s] = "invalid_time"
                /\ UNCHANGED <<user_data, file, tasks, schedVars>>]_vars

\* C13 witness: a request was refused while a one-shot job was pending.
C13_Witness ==
    /\ reply["B"] = "invalid_time"
    /\ reply["A"] = "scheduled"
    /\ jobs["scheduled_test"] # <<>>
    /\ sdata["A"].scheduled # <<>>
    /\ sdata["B"].scheduled = <<>>

\* C14: a schedule call that passes its checks succeeds and leaves the job of
\* its kind being the one just scheduled, for the session that scheduled it,
\* whether or not a job of that kind was pending.
C14_ScheduleReplacesPending ==
    [][\A s \in Sessions :
          /\ (sdata[s].image_links # <<>> /\ ScheduleImageCheck(s))
                => /\ reply'[s] = "hourly"
                   /\ jobs'["image_check"] = <<[owner |-> s, run_date |-> "hourly"]>>
          /\ (Configured(s) /\ ScheduleTest(s, <<DateLiteral, TimeGood, "GMT">>))
                => /\ reply'[s] = "scheduled"
                   /\ jobs'["scheduled_test"] # <<>>
                   /\ jobs'["scheduled_test"][1].owner = s]_vars

\* C15: a scheduled test that was fired makes exactly the attempts it was
\* scheduled with and sends its final summary, whatever /pause, /resume,
\* /stop, /test and /start do meanwhile; its steps leave user_data, the file
\* and the run_test tasks alone, the commands and the loop leave it alone, and
\* it always comes to its end.
C15_ScheduledRunIndependent ==
    /\ [](\A r \in RunSlots :
            runs[r].pc = "lastmsg"
               => /\ runs[r].msg = "final"
                  /\ runs[r].probes = runs[r].attempts
                  /\ runs[r].i = runs[r].attempts)
    /\ [][\A r \in RunSlots :
            /\ (runs[r].pc = "none" /\ runs'[r].pc # "none")
                  => /\ runs'[r].attempts = sdata[runs'[r].sess].scheduled[1].attempts
                     /\ runs'[r].initial_number =
                           sdata[runs'[r].sess].scheduled[1].initial_number
            /\ (runs[r].pc # "none" /\ runs'[r] # runs[r])
                  => /\ UNCHANGED <<user_data, file, tasks>>
                     /\ runs'[r].pc # "none"
                           => /\ runs'[r].attempts = runs[r].attempts
                              /\ runs'[r].probes \in {runs[r].probes, runs[r].probes + 1}]_vars
    /\ \A r \in RunSlots : [](runs[r].pc # "none" => <>(runs[r].pc = "lastmsg"))

\* C15 witness: a scheduled test of several attempts sends its final summary
\* while the interactive campaign of the session, started after it, is paused
\* in mid run.
C15_Witness ==
    /\ \E r \in RunSlots : /\ runs[r].pc = "lastmsg"
                            /\ runs[r].msg = "final"
                            /\ runs[r].probes >= 3
    /\ user_data["A"].testing /\ user_data["A"].paused
    /\ user_data["A"].current_index > 0
    /\ \E k \in Live("A") : tasks[k].pc = "pausewait"

\* C16 as claimed: /pause is refused unless the campaign is running and not
\* paused, /resume unless it is paused, and a refused command changes nothing.
C16_PauseOnlyWhenRunning ==
    [][\A s \in Sessions :
          /\ ((~user_data[s].testing \/ user_data[s].paused) /\ Pause(s))
                => /\ reply'[s] = "no_test"
                   /\ UNCHANGED <<user_data, file, tasks>>
          /\ ((~user_data[s].testing \/ ~user_data[s].paused) /\ Resume(s))
                => /\ reply'[s] \in {"no_test", "not_paused"}
                   /\ UNCHANGED <<user_data, file, tasks>>]_vars

\* C16 amended: /pause is refused only when no test is under way (idle,
\* stopped, completed); while one is, also when it is already paused, /pause
\* is accepted: it sets paused, saves and answers that the test is paused.
\* /resume is refused when no test is under way or the test is not paused, and
\* else clears paused.  A refused command changes nothing.
C16_PauseRefusedOnlyWhenIdle ==
    [][\A s \in Sessions :
          /\ (~user_data[s].testing /\ Pause(s))
                => /\ reply'[s] = "no_test"
                   /\ UNCHANGED <<user_data, file, tasks>>
          /\ (user_data[s].testing /\ Pause(s))
                => /\ reply'[s] = "paused"
                   /\ user_data' = [user_data EXCEPT ![s].paused = TRUE]
                   /\ file' = <<Snapshot(user_data'[s])>>
                   /\ UNCHANGED tasks
          /\ (~user_data[s].testing /\ Resume(s))
                => /\ reply'[s] = "no_test"
                   /\ UNCHANGED <<user_data, file, tasks>>
          /\ (user_data[s].testing /\ ~user_data[s].paused /\ Resume(s))
                => /\ reply'[s] = "not_paused"
                   /\ UNCHANGED <<user_data, file, tasks>>
          /\ (user_data[s].testing /\ user_data[s].paused /\ Resume(s))
                => /\ reply'[s] = "resumed"
                   /\ user_data' = [user_data EXCEPT ![s].paused = FALSE]
                   /\ UNCHANGED tasks]_vars

\* C16 witness: a paused campaign whose loop waits in the pause loop, told
\* that the test is paused.
C16_Witness ==
    /\ user_data["A"].testing /\ user_data["A"].paused
    /\ reply["A"] = "paused"
    /\ \E k \in Live("A") : tasks[k].pc = "pausewait"

\* C17: after /stop (and until the next /test) no probe is started: the
\* number of probes started for each attempt index does not grow.
C17_NoProbeAfterStop ==
    [][\A s \in Sessions :
          (stopSummary[s] # <<>> /\ ~user_data[s].testing)
             => \A i \in 0..(MaxAttempts - 1) : probed'[s][i].n <= probed[s][i].n]_vars

\* C18: while the testing flag of a session is set, a run_test task of that
\* session is alive.
C18_TestingHasLoop ==
    \A s \in Sessions : user_data[s].testing => Live(s) # {}

\* C19: while a test is under way current_index lies in 0..attempts and does
\* not decrease.
C19_CursorMonotone ==
    /\ [](\A s \in Sessions :
            user_data[s].testing
               => user_data[s].current_index \in 0..user_data[s].attempts)
    /\ [][\A s \in Sessions :
            (user_data[s].testing /\ user_data'[s].testing)
               => user_data'[s].current_index >= user_data[s].current_index]_vars

\* a is the beginning of b.
IsPrefix(a, b) == Len(a) <= Len(b) /\ SubSeq(b, 1, Len(a)) = a

\* C20: while a test is under way valid_urls only grows at its end: no step
\* removes an entry, puts an older list in its place or changes the order.
C20_ValidUrlsAppendOnly ==
    [][\A s \in Sessions :
          (user_data[s].testing /\ user_data'[s].testing)
             => IsPrefix(user_data[s].valid_urls, user_data'[s].valid_urls)]_vars

\* C21: the configuration a running campaign works with is fixed when it
\* starts: as long as its task goes on, the total of attempts, the first id
\* and the url template of its frame stay what they were, in this batch and
\* in the next ones, and its batch number stays or grows by one, whatever
\* /seturl, /setattempts and /setid are sent meanwhile.
C21_ConfigFixedAtStart ==
    [][\A k \in Slots :
          (tasks[k].pc \notin {"none", "created"} /\ tasks'[k].pc # "none")
             => /\ tasks'[k].total_attempts = tasks[k].total_attempts
                /\ tasks'[k].initial_number = tasks[k].initial_number
                /\ tasks'[k].url_template = tasks[k].url_template
                /\ tasks'[k].batch_number \in
                      {tasks[k].batch_number, tasks[k].batch_number + 1}]_vars

\* C22: when the process dies during a save, the file afterwards holds the
\* whole snapshot it held before or the whole new one, and loading it still
\* finds the test under way.
C22_SaveIsAtomic ==
    [][\A s \in Sessions :
          PauseCrash(s)
             => /\ file' \in {file, <<Snapshot(PauseSnapshot(s))>>}
                /\ LoadTestState(file', s, InitUD).testing]_vars

\* The campaign of s was stopped by /stop and no /test has come since.
Stopped(s) == stopSummary[s] # <<>>

\* C23: once the campaign of a session is stopped or completed, and until its
\* next /test, what the state file holds says that no test is under way: a
\* /start of that session loads testing = false and creates no task.
C23_NoRunningSnapshotAfterEnd ==
    \A s \in Sessions :
        (Stopped(s) \/ Completed(s))
           => ~LoadTestState(file, s, user_data[s]).testing

\* C24: the summary of /stop is the last message of a stopped campaign: after
\* it, and until the next /test, the loop sends no progress message, no
\* batch-start message, no batch-complete message and no final summary.
C24_StopSummaryIsLast ==
    \A s \in Sessions :
        Stopped(s)
           => lastMsg[s].kind \notin {"progress", "batch_start", "batch_done", "final"}

\* The pending one-shot job, as a sequence of at most one job.
PendingTest == jobs["scheduled_test"]

\* C25: a one-shot job runs with the configuration of the /scheduletest that
\* created it: the call that stores the job copies url, attempts and first id
\* of that moment into scheduled_*; while the job is pending nothing changes
\* them; and the run that the job starts works with them.
C25_JobRunsCapturedConfig ==
    [][/\ (PendingTest = <<>> /\ PendingTest' # <<>>)
             => LET o == PendingTest'[1].owner
                IN  /\ sdata'[o].scheduled # <<>>
                    /\ sdata'[o].scheduled[1].url = user_data[o].url
                    /\ sdata'[o].scheduled[1].attempts = user_data[o].attempts
                    /\ sdata'[o].scheduled[1].initial_number = user_data[o].initial_number
       /\ (PendingTest # <<>> /\ PendingTest' # <<>>)
             => sdata'[PendingTest[1].owner].scheduled
                   = sdata[PendingTest[1].owner].scheduled
       /\ (PendingTest # <<>> /\ PendingTest' = <<>>)
             => \A r \in RunSlots :
                   (runs[r].pc = "none" /\ runs'[r].pc # "none")
                      => LET sd == sdata[PendingTest[1].owner].scheduled[1]
                         IN  /\ runs'[r].url_template = sd.url
                             /\ runs'[r].attempts = sd.attempts
                             /\ runs'[r].initial_number = sd.initial_number]_vars
====
